---- MODULE Spec2Model ----
(***************************************************************************)
(* A model of rawdog_osgood/client.py: the Rawdog client classes           *)
(* (RawdogClientBase, RawdogClientTcp, RawdogClientUnix), the frame        *)
(* encoder inside send, the socket exchange of send, and the frame         *)
(* decoder recv.                                                           *)
(*                                                                         *)
(* Bytes and characters are integers (a byte 0..255, a character its code  *)
(* point); a bytes object or a str is a sequence of them.  A Python value  *)
(* is a record [t, n, s]: its type name, its number (int, bool as 0 or 1,  *)
(* float by its integer part) and its sequence (str, bytes).               *)
(***************************************************************************)
EXTENDS Integers, Sequences, FiniteSets, TLC

(***************************************************************************)
(* Python values                                                           *)
(***************************************************************************)
PyInt(n)   == [t |-> "int",   n |-> n, s |-> <<>>]
PyBool(b)  == [t |-> "bool",  n |-> IF b THEN 1 ELSE 0, s |-> <<>>]
PyFloat(n) == [t |-> "float", n |-> n, s |-> <<>>]
PyStr(s)   == [t |-> "str",   n |-> 0, s |-> s]
PyBytes(s) == [t |-> "bytes", n |-> 0, s |-> s]
PyNone     == [t |-> "NoneType", n |-> 0, s |-> <<>>]
PyList     == [t |-> "list",  n |-> 0, s |-> <<>>]
PySet      == [t |-> "set",   n |-> 0, s |-> <<>>]
\* dict(), the empty dict
PyEmptyDict == [t |-> "dict", n |-> 0, s |-> <<>>]

\* isinstance(x, int): bool is a subclass of int.
IsInstanceInt(x) == x.t \in {"int", "bool"}
\* isinstance(x, str)
IsInstanceStr(x) == x.t = "str"
\* isinstance(x, bytes)
IsInstanceBytes(x) == x.t = "bytes"

(***************************************************************************)
(* Module constants of client.py                                           *)
(***************************************************************************)
MAX_PORT == 65535
MIN_PORT == 1
\* the byte length struct.calcsize(">HQ") of the size packet, read by recv(10)
SIZE_PACKET_LEN == 10
\* the default of kwargs.get("send_timeout", 10)
DEFAULT_SEND_TIMEOUT == 10

\* "client", "Agentname", "Endpoint", "Addldata" as character sequences
AGENT_NAME   == <<99, 108, 105, 101, 110, 116>>
KEY_AGENT    == <<65, 103, 101, 110, 116, 110, 97, 109, 101>>
KEY_ENDPOINT == <<69, 110, 100, 112, 111, 105, 110, 116>>
KEY_ADDL     == <<65, 100, 100, 108, 100, 97, 116, 97>>

(***************************************************************************)
(* Sequence helpers                                                        *)
(***************************************************************************)
Min(a, b) == IF a < b THEN a ELSE b

\* the first n elements of s (all of s when it is shorter): s[:n]
Take(s, n) == SubSeq(s, 1, Min(n, Len(s)))

\* s without its first n elements: s[n:]
Drop(s, n) == SubSeq(s, Min(n, Len(s)) + 1, Len(s))

(***************************************************************************)
(* str.encode("utf-8")                                                     *)
(***************************************************************************)
\* a lone surrogate cannot be encoded: UnicodeEncodeError
IsSurrogate(c) == c >= 55296 /\ c <= 57343

Utf8Char(c) ==
    IF c < 128 THEN <<c>>
    ELSE IF c < 2048 THEN <<192 + (c \div 64), 128 + (c % 64)>>
    ELSE IF c < 65536
         THEN <<224 + (c \div 4096), 128 + ((c \div 64) % 64), 128 + (c % 64)>>
    ELSE <<240 + (c \div 262144), 128 + ((c \div 4096) % 64),
           128 + ((c \div 64) % 64), 128 + (c % 64)>>

\* ASCII text encodes to itself, byte for character
RECURSIVE Utf8Encode(_)
Utf8Encode(s) ==
    IF s \in Seq(0..127) THEN s
    ELSE Utf8Char(Head(s)) \o Utf8Encode(Tail(s))

Utf8Encodable(s) == \A i \in 1..Len(s) : ~IsSurrogate(s[i])

(***************************************************************************)
(* json.dumps(headers) with the default separators and ensure_ascii        *)
(***************************************************************************)
HexDigit(d) == IF d < 10 THEN 48 + d ELSE 97 + (d - 10)

\* "\uXXXX" of a code point below 65536
JsonUEscape(c) ==
    <<92, 117, HexDigit((c \div 4096) % 16), HexDigit((c \div 256) % 16),
      HexDigit((c \div 16) % 16), HexDigit(c % 16)>>

JsonEscapeChar(c) ==
    IF c = 34 THEN <<92, 34>>
    ELSE IF c = 92 THEN <<92, 92>>
    ELSE IF c = 10 THEN <<92, 110>>
    ELSE IF c = 13 THEN <<92, 114>>
    ELSE IF c = 9 THEN <<92, 116>>
    ELSE IF c = 8 THEN <<92, 98>>
    ELSE IF c = 12 THEN <<92, 102>>
    ELSE IF c >= 32 /\ c <= 126 THEN <<c>>
    ELSE JsonUEscape(c)

\* the characters json.dumps copies as they are
JsonPlainChars == {c \in 0..127 : JsonEscapeChar(c) = <<c>>}

\* text with no character to escape is copied as it is
RECURSIVE JsonEscape(_)
JsonEscape(s) ==
    IF s \in Seq(JsonPlainChars) THEN s
    ELSE JsonEscapeChar(Head(s)) \o JsonEscape(Tail(s))

JsonStr(s) == <<34>> \o JsonEscape(s) \o <<34>>

RECURSIVE JsonNat(_)
JsonNat(n) ==
    IF n < 10 THEN <<48 + n>> ELSE JsonNat(n \div 10) \o <<48 + (n % 10)>>

JsonInt(n) == IF n < 0 THEN <<45>> \o JsonNat(0 - n) ELSE JsonNat(n)

\* the values json.dumps can serialize; anything else is a TypeError
JsonSerializable(v) == v.t \in {"int", "bool", "str", "NoneType"}

JsonValue(v) ==
    IF v.t = "int" THEN JsonInt(v.n)
    ELSE IF v.t = "bool"
         THEN (IF v.n = 1 THEN <<116, 114, 117, 101>> ELSE <<102, 97, 108, 115, 101>>)
    ELSE IF v.t = "str" THEN JsonStr(v.s)
    ELSE <<110, 117, 108, 108>>

\* one item of a dict: "key": value
JsonItem(it) == JsonStr(it.k) \o <<58, 32>> \o JsonValue(it.v)

RECURSIVE JsonItems(_)
JsonItems(items) ==
    IF items = <<>> THEN <<>>
    ELSE IF Len(items) = 1 THEN JsonItem(items[1])
    ELSE JsonItem(items[1]) \o <<44, 32>> \o JsonItems(Tail(items))

\* json.dumps(d) of a dict given as its items in insertion order
JsonDumps(items) == <<123>> \o JsonItems(items) \o <<125>>

JsonDumpable(items) == \A i \in 1..Len(items) : JsonSerializable(items[i].v)

(***************************************************************************)
(* base64.b64encode                                                        *)
(***************************************************************************)
B64Char(i) ==
    IF i < 26 THEN 65 + i
    ELSE IF i < 52 THEN 97 + (i - 26)
    ELSE IF i < 62 THEN 48 + (i - 52)
    ELSE IF i = 62 THEN 43
    ELSE 47

RECURSIVE B64Encode(_)
B64Encode(b) ==
    IF b = <<>> THEN <<>>
    ELSE IF Len(b) = 1
         THEN <<B64Char(b[1] \div 4), B64Char((b[1] % 4) * 16), 61, 61>>
    ELSE IF Len(b) = 2
         THEN <<B64Char(b[1] \div 4),
                B64Char((b[1] % 4) * 16 + (b[2] \div 16)),
                B64Char((b[2] % 16) * 4), 61>>
    ELSE <<B64Char(b[1] \div 4),
           B64Char((b[1] % 4) * 16 + (b[2] \div 16)),
           B64Char((b[2] % 16) * 4 + (b[3] \div 64)),
           B64Char(b[3] % 64)>> \o B64Encode(Drop(b, 3))

(***************************************************************************)
(* struct.pack / struct.unpack with SIZE_PACKET_FMT = ">HQ"                *)
(***************************************************************************)
\* n as w big-endian bytes
RECURSIVE BigEndian(_, _)
BigEndian(n, w) ==
    IF w = 0 THEN <<>> ELSE BigEndian(n \div 256, w - 1) \o <<n % 256>>

RECURSIVE FromBigEndian(_)
FromBigEndian(b) ==
    IF b = <<>> THEN 0
    ELSE FromBigEndian(SubSeq(b, 1, Len(b) - 1)) * 256 + b[Len(b)]

\* the largest number the 'H' format packs
MAX_UINT16 == 65535

\* struct.pack with no range check of the 'H' field
PackFitsNoRange(meta_size, data_size) == TRUE

\* 'H' format requires 0 <= number <= 65535; 'Q' requires 0 <= number <= 2^64 - 1,
\* which the len() of a bytes object always is
PackFits(meta_size, data_size) ==
    /\ meta_size >= 0 /\ meta_size <= MAX_UINT16
    /\ data_size >= 0

\* the size header packed little-endian ("<HQ")
StructPackLittleEndian(meta_size, data_size, metadata, message) ==
    <<meta_size % 256, meta_size \div 256>>
        \o <<data_size % 256, (data_size \div 256) % 256, (data_size \div 65536) % 256,
             (data_size \div 16777216) % 256, 0, 0, 0, 0>>
        \o Take(metadata, meta_size) \o Take(message, data_size)

\* struct.pack(f">HQ{meta_size}s{data_size}s", meta_size, data_size, metadata, message)
StructPack(meta_size, data_size, metadata, message) ==
    BigEndian(meta_size, 2) \o BigEndian(data_size, 8)
        \o Take(metadata, meta_size) \o Take(message, data_size)

\* struct.unpack(">HQ", size_packet) needs a buffer of exactly 10 bytes
UnpackFits(size_packet) == Len(size_packet) = SIZE_PACKET_LEN

UnpackMetaSize(size_packet) == FromBigEndian(SubSeq(size_packet, 1, 2))
UnpackDataSize(size_packet) == FromBigEndian(SubSeq(size_packet, 3, 10))

(***************************************************************************)
(* Bounds and the inputs drawn under them                                  *)
(***************************************************************************)
\* the longest message handed to send
MaxMsgLen == 2
\* the largest endpoint handed to generic_md
MaxEndpoint == 1
\* the largest block size a hand-built response header announces
MaxBlock == 2
\* the most bytes that follow a response frame in the stream
MaxExtra == 1

SeqsUpTo(A, n) == UNION {[1..k -> A] : k \in 0..n}

Dict(items)  == [t |-> "dict", items |-> items]
NotADict(ty) == [t |-> ty, items |-> <<>>]
Item(k, v)   == [k |-> k, v |-> v]

\* the bytes and characters messages are made of: "h", NUL, 0xff; "h", e-acute,
\* a lone surrogate
MsgBytes == {0, 104, 255}
MsgChars == {104, 233, 55296}

\* the messages handed to send: bytes, str, and values of other types
Messages ==
    {PyBytes(b) : b \in SeqsUpTo(MsgBytes, MaxMsgLen)}
        \cup {PyStr(c) : c \in SeqsUpTo(MsgChars, MaxMsgLen)}
        \cup {PyInt(7), PyNone}

\* generic_md's mapping for endpoint e (lines 63-65)
GenericMd(e) ==
    Dict(<<Item(KEY_AGENT, PyStr(AGENT_NAME)), Item(KEY_ENDPOINT, PyInt(e)),
           Item(KEY_ADDL, PyStr(<<>>))>>)

\* the headers handed to send: dicts (empty, small, generic_md's, one holding a
\* value json cannot serialize) and values that are no dict
Headers ==
    {Dict(<<>>), Dict(<<Item(<<97>>, PyInt(1))>>), Dict(<<Item(<<107>>, PySet)>>),
     NotADict("list"), NotADict("NoneType")}
        \cup {GenericMd(e) : e \in 0..MaxEndpoint}

\* a dict whose one value is a str of n characters
LongHeader(n) == Dict(<<Item(<<97>>, PyStr([i \in 1..n |-> 120]))>>)

\* the two dicts of that shape whose JSON is the longest metadata the size
\* header can announce, and one byte longer
LongHeaders ==
    {LongHeader(MAX_UINT16 - Len(JsonDumps(LongHeader(0).items)) + d) : d \in 0..1}

\* the message sent with them: b"h"
LongHeadersMessage == PyBytes(<<104>>)

\* the addresses, ports and timeouts handed to the constructors
Addresses == {PyStr(<<104>>), PyStr(<<>>), PyNone}
Ports     == {PyInt(-1), PyInt(0), PyInt(MIN_PORT), PyInt(MAX_PORT),
              PyInt(MAX_PORT + 1), PyStr(<<56, 48>>)}
Timeouts  == {PyInt(-1), PyInt(0), PyInt(1), PyFloat(1), PyStr(<<49>>)}
\* **kwargs: with or without send_timeout
Kwargs    == {[has_timeout |-> FALSE, send_timeout |-> PyNone]}
                 \cup {[has_timeout |-> TRUE, send_timeout |-> v] : v \in Timeouts}

(***************************************************************************)
(* The client object and its constructors                                  *)
(***************************************************************************)
\* No object: the constructor raised, or none was called yet.
NoClient ==
    [made |-> FALSE, cls |-> "none", attrs |-> {}, agent_name |-> <<>>,
     srvaddr |-> PyNone, send_timeout |-> PyNone, srvport |-> PyNone]

\* kwargs.get("send_timeout", 10)
KwargsGetSendTimeout(kwargs) ==
    IF kwargs.has_timeout THEN kwargs.send_timeout ELSE PyInt(DEFAULT_SEND_TIMEOUT)

\* RawdogClientBase.__init__(self, server_addr, **kwargs) called with the
\* positional arguments pos: the exception it raises ("None": none) and the object
\* it leaves, whose private names are mangled with the class they are written in.
RawdogClientBase_init(cls, pos, kwargs) ==
    LET s_timeout == KwargsGetSendTimeout(kwargs) IN
    IF Len(pos) # 1
    THEN [exc |-> "TypeError", obj |-> NoClient]
    ELSE IF ~IsInstanceStr(pos[1])
    THEN [exc |-> "TypeError", obj |-> NoClient]
    ELSE IF ~IsInstanceInt(s_timeout)
    THEN [exc |-> "TypeError", obj |-> NoClient]
    ELSE IF s_timeout.n < 1
    THEN [exc |-> "ValueError", obj |-> NoClient]
    ELSE [exc |-> "None",
          obj |-> [made |-> TRUE, cls |-> cls,
                   attrs |-> {"_RawdogClientBase__agent_name",
                              "_RawdogClientBase__srvaddr",
                              "_RawdogClientBase__send_timeout"},
                   agent_name |-> AGENT_NAME,
                   srvaddr |-> pos[1],
                   send_timeout |-> s_timeout,
                   srvport |-> PyNone]]

\* the positional arguments RawdogClientTcp.__init__ hands to super().__init__
TcpSuperArgs(server_addr, server_port) == <<server_addr, server_port>>

\* RawdogClientTcp.__init__(self, server_addr, server_port, **kwargs)
RawdogClientTcp_init(server_addr, server_port, kwargs) ==
    LET base == RawdogClientBase_init("Tcp", TcpSuperArgs(server_addr, server_port), kwargs) IN
    IF base.exc # "None" THEN base
    ELSE IF ~IsInstanceInt(server_port)
    THEN [exc |-> "TypeError", obj |-> NoClient]
    ELSE IF ~(MIN_PORT <= server_port.n /\ server_port.n <= MAX_PORT)
    THEN [exc |-> "ValueError", obj |-> NoClient]
    ELSE [exc |-> "None",
          obj |-> [base.obj EXCEPT !.attrs = @ \cup {"_RawdogClientTcp__srvport"},
                                   !.srvport = server_port]]

\* RawdogClientUnix.__init__(self, server_addr, **kwargs)
RawdogClientUnix_init(server_addr, kwargs) ==
    RawdogClientBase_init("Unix", <<server_addr>>, kwargs)

\* the lookup of a private name written inside class RawdogClientBase
HasBaseAttr(obj, name) == (("_RawdogClientBase__" \o name) \in obj.attrs)

(***************************************************************************)
(* State                                                                   *)
(***************************************************************************)
VARIABLES
    pc,      \* where the caller is: "idle", inside a call, or just back from one
    client,  \* the client object the caller holds (NoClient: none)
    ctor,    \* the last constructor call: its arguments and what it raised
    snd,     \* the locals and the result of the send call
    sock,    \* the socket send opened
    rcv,     \* the locals and the result of the recv call
    conn,    \* the connection handed to recv
    gmd,     \* the generic_md call, and the mapping the caller kept from the last one
    thr,     \* the send call of each thread that shares the client
    socks    \* the sockets those calls created, in the order of their creation

vars == <<pc, client, ctor, snd, sock, rcv, conn, gmd, thr, socks>>

NoCtor ==
    [cls |-> "none", server_addr |-> PyNone, server_port |-> PyNone,
     kwargs |-> [has_timeout |-> FALSE, send_timeout |-> PyNone], exc |-> "None"]

\* send's locals before line 114; called: send was called; raised is the
\* exception send lets through
NoSend ==
    [headers |-> NotADict("NoneType"), message |-> PyNone,
     metadata |-> <<>>, message64 |-> <<>>, meta_size |-> 0, data_size |-> 0,
     called |-> FALSE, built |-> FALSE, payload |-> <<>>,
     r_md |-> PyEmptyDict, r_dat |-> PyBytes(<<>>), err |-> "None",
     raised |-> "None"]

\* state: "none" (no socket), "open", "closed"; opened: how many sockets the
\* call created; family: the address family of the socket; events: what was done
\* with it, in order; wire: the bytes written to it
NoSock ==
    [state |-> "none", opened |-> 0, family |-> "none", timeout |-> PyNone,
     connected |-> FALSE, events |-> <<>>, wire |-> <<>>]

\* recv's locals after lines 77-79; raised is the exception recv lets through
NoRecv ==
    [size_packet |-> <<>>, meta_size |-> 0, data_size |-> 0,
     metadata |-> PyEmptyDict, data |-> PyBytes(<<>>), err |-> "None",
     raised |-> "None", text |-> ""]

NoOrigin == [kind |-> "none", headers |-> NotADict("NoneType"), message |-> PyNone]

\* A connection: inbound is what the peer sends if it does not close early, of
\* which the first delivered bytes have arrived and the first consumed were read;
\* eof: the peer has closed, nothing more arrives; reads counts conn.recv calls.
NoConn ==
    [inbound |-> <<>>, delivered |-> 0, consumed |-> 0, eof |-> FALSE,
     reads |-> 0, origin |-> NoOrigin]

\* generic_md's argument and result (md, err); held is the mapping an earlier
\* call returned, which the caller still holds and may have changed
NoMd ==
    [endpoint |-> PyNone, md |-> NotADict("NoneType"), err |-> "None",
     held |-> NotADict("NoneType")]

\* the caller is between calls
Idle == pc = "idle"

\* a call has ended and the caller holds what it returned or raised
Ended == pc \in {"ctor_done", "send_returned", "recv_returned", "recv_raised",
                  "md_returned"}

(***************************************************************************)
(* Construction                                                            *)
(***************************************************************************)
\* RawdogClientBase(server_addr, **kwargs), RawdogClientTcp(server_addr,
\* server_port, **kwargs) or RawdogClientUnix(server_addr, **kwargs): a constructor
\* that raises hands the caller no object.
Construct(cls, server_addr, server_port, kwargs) ==
    /\ Idle
    /\ LET r == IF cls = "Tcp" THEN RawdogClientTcp_init(server_addr, server_port, kwargs)
                ELSE IF cls = "Unix" THEN RawdogClientUnix_init(server_addr, kwargs)
                ELSE RawdogClientBase_init("Base", <<server_addr>>, kwargs)
       IN /\ client' = r.obj
          /\ ctor' = [cls |-> cls, server_addr |-> server_addr,
                      server_port |-> IF cls = "Tcp" THEN server_port ELSE PyNone,
                      kwargs |-> kwargs, exc |-> r.exc]
    /\ pc' = "ctor_done"
    /\ snd' = NoSend
    /\ sock' = NoSock
    /\ rcv' = NoRecv
    /\ conn' = NoConn
    /\ gmd' = NoMd
    /\ UNCHANGED <<thr, socks>>

(***************************************************************************)
(* send: the encoder (lines 114-135)                                       *)
(***************************************************************************)
EncodeFailed(exc) ==
    [exc |-> exc, metadata |-> <<>>, message64 |-> <<>>,
     meta_size |-> 0, data_size |-> 0, payload |-> <<>>]

\* the encoder without the isinstance checks of lines 115 and 120: whatever it
\* is given is serialized and packed
SendEncodeUnchecked(headers, message) ==
    IF IsInstanceStr(message) /\ ~Utf8Encodable(message.s)
    THEN EncodeFailed("UnicodeEncodeError")
    ELSE IF ~JsonDumpable(headers.items) THEN EncodeFailed("TypeError")
    ELSE
      LET raw       == IF IsInstanceStr(message) THEN Utf8Encode(message.s) ELSE message.s
          metadata  == Utf8Encode(JsonDumps(headers.items))
          message64 == B64Encode(raw)
          meta_size == Len(metadata)
          data_size == Len(message64)
      IN IF ~PackFits(meta_size, data_size) THEN EncodeFailed("struct.error")
         ELSE [exc |-> "None", metadata |-> metadata, message64 |-> message64,
               meta_size |-> meta_size, data_size |-> data_size,
               payload |-> StructPack(meta_size, data_size, metadata, message64)]

\* the frame send builds from headers and message, or the exception raised on
\* the way: exc is "None" when the payload was packed
SendEncode(headers, message) ==
    IF headers.t # "dict" THEN EncodeFailed("TypeError")
    ELSE IF IsInstanceStr(message) /\ ~Utf8Encodable(message.s)
    THEN EncodeFailed("UnicodeEncodeError")
    ELSE IF ~IsInstanceStr(message) /\ ~IsInstanceBytes(message)
    THEN EncodeFailed("TypeError")
    ELSE IF ~JsonDumpable(headers.items) THEN EncodeFailed("TypeError")
    ELSE
      LET raw       == IF IsInstanceStr(message) THEN Utf8Encode(message.s) ELSE message.s
          metadata  == Utf8Encode(JsonDumps(headers.items))
          message64 == B64Encode(raw)
          meta_size == Len(metadata)
          data_size == Len(message64)
      IN IF ~PackFits(meta_size, data_size) THEN EncodeFailed("struct.error")
         ELSE [exc |-> "None", metadata |-> metadata, message64 |-> message64,
               meta_size |-> meta_size, data_size |-> data_size,
               payload |-> StructPack(meta_size, data_size, metadata, message64)]

(***************************************************************************)
(* send: the exchange (lines 139-156)                                      *)
(***************************************************************************)
\* an except clause that names TypeError and ValueError only: every other
\* exception leaves send
SendExceptNarrow(s, exc) ==
    IF exc \in {"TypeError", "ValueError"} THEN [s EXCEPT !.err = exc]
    ELSE [s EXCEPT !.raised = exc]

\* except Exception as ex: err = ex
SendExcept(s, exc) == [s EXCEPT !.err = exc]

\* a socket that is closed by no one when the block is left by an exception
WithExitLeak(sk) == sk

\* leaving the with block closes the socket, on every way out
WithExit(sk) == [sk EXCEPT !.state = "closed", !.events = Append(@, "close")]

\* send(headers, message), lines 108-135: the locals, the argument checks and
\* the encoding.  A failure goes to the except clause and send returns.
SendCall(headers, message) ==
    /\ Idle
    /\ client.made
    /\ \E e \in {SendEncode(headers, message)} :
       LET s == [NoSend EXCEPT !.called = TRUE, !.headers = headers, !.message = message]
       IN IF e.exc # "None"
          THEN /\ snd' = SendExcept(s, e.exc)
               /\ pc' = "send_returned"
          ELSE /\ snd' = [s EXCEPT !.metadata = e.metadata, !.message64 = e.message64,
                                   !.meta_size = e.meta_size, !.data_size = e.data_size,
                                   !.built = TRUE, !.payload = e.payload]
               /\ pc' = "send_socket"
    /\ sock' = NoSock
    /\ rcv' = NoRecv
    /\ conn' = NoConn
    /\ gmd' = NoMd
    /\ UNCHANGED <<client, ctor, thr, socks>>

\* line 139: socket.socket(AF_INET, SOCK_STREAM), whatever the class of the
\* client, gives an open socket, or raises OSError (no descriptor left) and no
\* socket exists
SendSocket ==
    /\ pc = "send_socket"
    /\ \/ /\ sock' = [sock EXCEPT !.state = "open", !.opened = @ + 1,
                                  !.family = "AF_INET", !.events = Append(@, "open")]
          /\ pc' = "send_settimeout"
          /\ UNCHANGED snd
       \/ /\ snd' = SendExcept(snd, "OSError")
          /\ pc' = "send_returned"
          /\ UNCHANGED sock
    /\ UNCHANGED <<client, ctor, rcv, conn, gmd, thr, socks>>

\* line 143: conn.settimeout(self.__send_timeout)
SendSetTimeout ==
    /\ pc = "send_settimeout"
    /\ IF HasBaseAttr(client, "send_timeout")
       THEN /\ sock' = [sock EXCEPT !.timeout = client.send_timeout,
                                    !.events = Append(@, "settimeout")]
            /\ pc' = "send_connect"
            /\ UNCHANGED snd
       ELSE /\ sock' = WithExit(sock)
            /\ snd' = SendExcept(snd, "AttributeError")
            /\ pc' = "send_returned"
    /\ UNCHANGED <<client, ctor, rcv, conn, gmd, thr, socks>>

\* a connect step that, on failure, closes the socket and starts over with a new
\* one
SendConnectRetry ==
    /\ pc = "send_connect"
    /\ sock' = WithExit(sock)
    /\ pc' = "send_socket"
    /\ UNCHANGED <<client, ctor, snd, rcv, conn, gmd, thr, socks>>

\* line 145: conn.connect((self.__srvaddr, self.__srvport)).  The address tuple
\* is built first: inside RawdogClientBase the name __srvport is
\* _RawdogClientBase__srvport, which no constructor sets (RawdogClientTcp sets
\* _RawdogClientTcp__srvport), so the lookup raises AttributeError before connect
\* is called; the with block closes the socket and the except clause keeps the
\* error.  Lines 147-151 (sendall, recv, raise err) run only after a connect.
SendConnect ==
    /\ pc = "send_connect"
    /\ IF HasBaseAttr(client, "srvaddr") /\ HasBaseAttr(client, "srvport")
       THEN /\ sock' = [sock EXCEPT !.connected = TRUE, !.events = Append(@, "connect")]
            /\ pc' = "send_sendall"
            /\ UNCHANGED snd
       ELSE /\ sock' = WithExit(sock)
            /\ snd' = SendExcept(snd, "AttributeError")
            /\ pc' = "send_returned"
    /\ UNCHANGED <<client, ctor, rcv, conn, gmd, thr, socks>>

(***************************************************************************)
(* The connection handed to recv                                           *)
(***************************************************************************)
RECURSIVE Repeat(_, _)
Repeat(b, n) == IF n = 0 THEN <<>> ELSE <<b>> \o Repeat(b, n - 1)

\* the headers and messages whose encoded frame is fed back to recv
RoundTripHeaders  == {Dict(<<Item(<<97>>, PyInt(1))>>)}
RoundTripMessages == {PyBytes(b) : b \in SeqsUpTo({104, 255}, MaxMsgLen) \ {<<>>}}

\* a response stream: the frame send's encoder builds from h and m
EncodedStream(h, m) ==
    [inbound |-> SendEncode(h, m).payload,
     origin  |-> [kind |-> "encoded", headers |-> h, message |-> m]]

\* a response stream: a size header announcing ms and ds, ms bytes "m", ds bytes
\* "d", then x bytes "x" that belong to no frame
RawStream(ms, ds, x) ==
    [inbound |-> BigEndian(ms, 2) \o BigEndian(ds, 8) \o Repeat(109, ms)
                     \o Repeat(100, ds) \o Repeat(120, x),
     origin  |-> [kind |-> "raw", headers |-> NotADict("NoneType"), message |-> PyNone]]

Streams ==
    {EncodedStream(h, m) : h \in RoundTripHeaders, m \in RoundTripMessages}
        \cup {RawStream(ms, ds, x) : ms \in 0..MaxBlock, ds \in 0..MaxBlock, x \in 0..MaxExtra}

\* the bytes that have arrived and were not read yet
Avail == SubSeq(conn.inbound, conn.consumed + 1, conn.delivered)

\* a blocking conn.recv(n) returns once a byte has arrived or the peer closed
RecvReady == Avail # <<>> \/ conn.eof

\* conn.recv(n): at most n of the bytes that have arrived (b"" at end of stream)
ConnRecv(n) == Take(Avail, n)

\* the connection after conn.recv returned got
Consumed(got) == [conn EXCEPT !.consumed = @ + Len(got), !.reads = @ + 1]

InRecv == pc \in {"recv_size", "recv_meta", "recv_data"}

\* the peer's next k bytes arrive
Deliver(k) ==
    /\ InRecv
    /\ ~conn.eof
    /\ conn.delivered + k <= Len(conn.inbound)
    /\ conn' = [conn EXCEPT !.delivered = @ + k]
    /\ UNCHANGED <<pc, client, ctor, snd, sock, rcv, gmd, thr, socks>>

\* the peer closes the connection; what it had not sent never arrives
PeerClose ==
    /\ InRecv
    /\ ~conn.eof
    /\ conn' = [conn EXCEPT !.eof = TRUE]
    /\ UNCHANGED <<pc, client, ctor, snd, sock, rcv, gmd, thr, socks>>

(***************************************************************************)
(* recv (lines 72-101)                                                     *)
(***************************************************************************)
\* the check with both comparisons off by one: it never holds of a size
EmptyBodyOffByOne(meta_size, data_size) == (meta_size < 0) /\ (data_size < 0)

\* line 88: the frame carries neither metadata nor data
EmptyBody(meta_size, data_size) == (meta_size < 1) /\ (data_size < 1)

\* an exception raised inside recv, which has no try block: it leaves recv
RecvRaise(r, exc, text) == [r EXCEPT !.raised = exc, !.text = text]

\* recv(conn) is called on a connection: lines 77-79
RecvCall(stream) ==
    /\ Idle
    /\ client.made
    /\ conn' = [NoConn EXCEPT !.inbound = stream.inbound, !.origin = stream.origin]
    /\ rcv' = NoRecv
    /\ pc' = "recv_size"
    /\ snd' = NoSend
    /\ sock' = NoSock
    /\ gmd' = NoMd
    /\ UNCHANGED <<client, ctor, thr, socks>>

\* lines 83-95: one conn.recv(10), struct.unpack, the empty-body check, and the
\* choice of the next read
RecvSize ==
    /\ pc = "recv_size"
    /\ RecvReady
    /\ LET size_packet == ConnRecv(SIZE_PACKET_LEN)
           meta_size   == UnpackMetaSize(size_packet)
           data_size   == UnpackDataSize(size_packet)
           r           == [rcv EXCEPT !.size_packet = size_packet]
       IN /\ conn' = Consumed(size_packet)
          /\ IF ~UnpackFits(size_packet)
             THEN /\ rcv' = RecvRaise(r, "struct.error", "unpack requires a buffer of 10 bytes")
                  /\ pc' = "recv_raised"
             ELSE IF EmptyBody(meta_size, data_size)
             THEN /\ rcv' = RecvRaise([r EXCEPT !.meta_size = meta_size,
                                                !.data_size = data_size],
                                      "ValueError", "no data in the main body")
                  /\ pc' = "recv_raised"
             ELSE IF meta_size > 0
             THEN /\ rcv' = [r EXCEPT !.meta_size = meta_size, !.data_size = data_size]
                  /\ pc' = "recv_meta"
             ELSE /\ rcv' = [r EXCEPT !.meta_size = meta_size, !.data_size = data_size,
                                      !.metadata = PyStr(<<>>)]
                  /\ pc' = "recv_data"
    /\ UNCHANGED <<client, ctor, snd, sock, gmd, thr, socks>>

\* line 93: metadata = conn.recv(meta_size), one call; then line 98
RecvMeta ==
    /\ pc = "recv_meta"
    /\ RecvReady
    /\ LET got == ConnRecv(rcv.meta_size)
       IN /\ conn' = Consumed(got)
          /\ rcv' = [rcv EXCEPT !.metadata = PyBytes(got)]
          /\ pc' = IF rcv.data_size > 0 THEN "recv_data" ELSE "recv_returned"
    /\ UNCHANGED <<client, ctor, snd, sock, gmd, thr, socks>>

\* line 99: data = conn.recv(data_size), one call; line 101 returns
RecvData ==
    /\ pc = "recv_data"
    /\ RecvReady
    /\ LET got == ConnRecv(rcv.data_size)
       IN /\ conn' = Consumed(got)
          /\ rcv' = [rcv EXCEPT !.data = PyBytes(got)]
          /\ pc' = "recv_returned"
    /\ UNCHANGED <<client, ctor, snd, sock, gmd, thr, socks>>

\* a blocked conn.recv gives up: the connection's timeout expires, or the read
\* fails; the OSError leaves recv
RecvFail ==
    /\ InRecv
    /\ Avail = <<>>
    /\ ~conn.eof
    /\ rcv' = RecvRaise(rcv, "OSError", "timed out")
    /\ conn' = [conn EXCEPT !.reads = @ + 1]
    /\ pc' = "recv_raised"
    /\ UNCHANGED <<client, ctor, snd, sock, gmd, thr, socks>>

(***************************************************************************)
(* generic_md (lines 43-70)                                                *)
(***************************************************************************)
\* d[k] = v on a dict given as its items: the value of an existing key is
\* replaced in place, a new key is appended
RECURSIVE DictSet(_, _, _)
DictSet(items, k, v) ==
    IF items = <<>> THEN <<Item(k, v)>>
    ELSE IF Head(items).k = k THEN <<Item(k, v)>> \o Tail(items)
    ELSE <<Head(items)>> \o DictSet(Tail(items), k, v)

\* one dict kept for all calls: the mapping the last call returned
NewDictShared == IF gmd.held.t = "dict" THEN gmd.held.items ELSE <<>>

\* line 56: md = dict(), a new empty dict for this call
NewDict == <<>>

\* generic_md without the isinstance check
generic_md_unchecked(obj, endpoint) ==
    [md  |-> Dict(DictSet(DictSet(DictSet(NewDict, KEY_AGENT, PyStr(obj.agent_name)),
                                  KEY_ENDPOINT, endpoint),
                          KEY_ADDL, PyStr(<<>>))),
     err |-> "None"]

\* generic_md(self, endpoint): the pair (md, err) it returns.  The TypeError is
\* raised before any key is set and the except clause keeps it.
generic_md(obj, endpoint) ==
    IF ~IsInstanceInt(endpoint)
    THEN [md |-> Dict(NewDict), err |-> "TypeError"]
    ELSE [md  |-> Dict(DictSet(DictSet(DictSet(NewDict, KEY_AGENT, PyStr(obj.agent_name)),
                                       KEY_ENDPOINT, endpoint),
                               KEY_ADDL, PyStr(<<>>))),
          err |-> "None"]

\* the endpoints handed to generic_md: ints, and values of other types
Endpoints ==
    {PyInt(e) : e \in -1..MaxEndpoint} \cup {PyStr(<<55>>), PyFloat(1), PyNone}

\* the keys the caller sets in a mapping it holds: "Addldata" and "x"
MutatedKeys == {KEY_ADDL, <<120>>}

\* generic_md(endpoint) is called and returns
GenericMdCall(endpoint) ==
    /\ Idle
    /\ client.made
    /\ LET r == generic_md(client, endpoint)
       IN gmd' = [gmd EXCEPT !.endpoint = endpoint, !.md = r.md, !.err = r.err]
    /\ pc' = "md_returned"
    /\ UNCHANGED <<client, ctor, snd, sock, rcv, conn, thr, socks>>

\* the caller changes the mapping an earlier generic_md call returned
MutateHeld(k, v) ==
    /\ Idle
    /\ gmd.held.t = "dict"
    /\ gmd' = [gmd EXCEPT !.held = Dict(DictSet(gmd.held.items, k, v))]
    /\ UNCHANGED <<pc, client, ctor, snd, sock, rcv, conn, thr, socks>>

(***************************************************************************)
(* The caller                                                              *)
(***************************************************************************)
\* the caller takes the result of the call that ended and drops it; the client
\* object it holds stays
Return ==
    /\ Ended
    /\ pc' = "idle"
    /\ ctor' = NoCtor
    /\ snd' = NoSend
    /\ sock' = NoSock
    /\ rcv' = NoRecv
    /\ conn' = NoConn
    /\ gmd' = [NoMd EXCEPT !.held = IF pc = "md_returned" THEN gmd.md ELSE gmd.held]
    /\ UNCHANGED <<client, thr, socks>>

(***************************************************************************)
(* The specification                                                       *)
(***************************************************************************)
Init ==
    /\ pc = "idle"
    /\ client = NoClient
    /\ ctor = NoCtor
    /\ snd = NoSend
    /\ sock = NoSock
    /\ rcv = NoRecv
    /\ conn = NoConn
    /\ gmd = NoMd
    /\ thr = <<>>
    /\ socks = <<>>

Next ==
    \/ \E cls \in {"Base", "Tcp", "Unix"}, a \in Addresses, p \in Ports, k \in Kwargs :
           Construct(cls, a, p, k)
    \/ \E h \in Headers, m \in Messages : SendCall(h, m)
    \/ \E h \in LongHeaders : SendCall(h, LongHeadersMessage)
    \/ SendSocket
    \/ SendSetTimeout
    \/ SendConnect
    \/ \E st \in Streams : RecvCall(st)
    \/ \E k \in 1..(SIZE_PACKET_LEN + 2 * MaxBlock + MaxExtra + 64) : Deliver(k)
    \/ PeerClose
    \/ RecvSize
    \/ RecvMeta
    \/ RecvData
    \/ RecvFail
    \/ \E e \in Endpoints : GenericMdCall(e)
    \/ \E k \in MutatedKeys : MutateHeld(k, PyStr(<<120>>))
    \/ Return

Spec == Init /\ [][Next]_vars

(***************************************************************************)
(* Threads that call send on one client                                    *)
(***************************************************************************)
\* the threads that share the client
MaxThreads == 2
\* the most sockets the process creates: past it socket.socket raises OSError
MaxSockets == 3

Threads == 1..MaxThreads

\* a thread outside send; conn is the place in socks of the socket its call
\* created (0: none)
NoCall == [pc |-> "idle", snd |-> NoSend, conn |-> 0]

\* the headers and messages the threads send: {"a": 1} and a list; b"h"
ThreadHeaders  == {Dict(<<Item(<<97>>, PyInt(1))>>), NotADict("list")}
ThreadMessages == {PyBytes(<<104>>)}

\* the clients RawdogClientUnix makes
SharedClients ==
    {r.obj : r \in {x \in {RawdogClientUnix_init(a, k) : a \in Addresses, k \in Kwargs} :
                        x.exc = "None"}}

\* one socket kept for the client and handed to every call
NewSocketCached(table, t) == 1

\* line 139: socket.socket(...) makes a new socket object at every call
NewSocket(table, t) == Len(table) + 1

\* the table after thread t entered "with ... as conn" with the socket at place i
Acquire(table, i, t) ==
    IF i > Len(table)
    THEN Append(table, [owner |-> t, users |-> {t},
                        sk |-> [NoSock EXCEPT !.state = "open", !.opened = 1,
                                              !.family = "AF_INET",
                                              !.events = <<"open">>]])
    ELSE [table EXCEPT ![i].users = @ \cup {t}, ![i].sk.opened = @ + 1,
                       ![i].sk.events = Append(@, "open")]

\* the table after thread t acted on the socket at place i and left it as sk
Use(table, i, t, sk) == [table EXCEPT ![i].users = @ \cup {t}, ![i].sk = sk]

\* lines 108-135 in thread t: the locals of the call are the thread's own
TSendCall(t, headers, message) ==
    /\ thr[t].pc = "idle"
    /\ \E e \in {SendEncode(headers, message)} :
       LET s == [NoSend EXCEPT !.called = TRUE, !.headers = headers, !.message = message]
       IN thr' = [thr EXCEPT ![t] =
                    IF e.exc # "None"
                    THEN [pc |-> "send_returned", snd |-> SendExcept(s, e.exc), conn |-> 0]
                    ELSE [pc |-> "send_socket",
                          snd |-> [s EXCEPT !.metadata = e.metadata,
                                            !.message64 = e.message64,
                                            !.meta_size = e.meta_size,
                                            !.data_size = e.data_size,
                                            !.built = TRUE, !.payload = e.payload],
                          conn |-> 0]]
    /\ UNCHANGED <<pc, client, ctor, snd, sock, rcv, conn, gmd, socks>>

\* line 139 in thread t
TSendSocket(t) ==
    /\ thr[t].pc = "send_socket"
    /\ \/ /\ Len(socks) < MaxSockets
          /\ LET i == NewSocket(socks, t)
             IN /\ socks' = Acquire(socks, i, t)
                /\ thr' = [thr EXCEPT ![t].pc = "send_settimeout", ![t].conn = i]
       \/ /\ thr' = [thr EXCEPT ![t].pc = "send_returned",
                                ![t].snd = SendExcept(@, "OSError")]
          /\ UNCHANGED socks
    /\ UNCHANGED <<pc, client, ctor, snd, sock, rcv, conn, gmd>>

\* line 143 in thread t: self.__send_timeout is read, nothing of self is written
TSendSetTimeout(t) ==
    /\ thr[t].pc = "send_settimeout"
    /\ LET i  == thr[t].conn
           sk == socks[i].sk
       IN IF HasBaseAttr(client, "send_timeout")
          THEN /\ socks' = Use(socks, i, t,
                               [sk EXCEPT !.timeout = client.send_timeout,
                                          !.events = Append(@, "settimeout")])
               /\ thr' = [thr EXCEPT ![t].pc = "send_connect"]
          ELSE /\ socks' = Use(socks, i, t, WithExit(sk))
               /\ thr' = [thr EXCEPT ![t].pc = "send_returned",
                                     ![t].snd = SendExcept(@, "AttributeError")]
    /\ UNCHANGED <<pc, client, ctor, snd, sock, rcv, conn, gmd>>

\* lines 145-156 in thread t
TSendConnect(t) ==
    /\ thr[t].pc = "send_connect"
    /\ LET i  == thr[t].conn
           sk == socks[i].sk
       IN IF HasBaseAttr(client, "srvaddr") /\ HasBaseAttr(client, "srvport")
          THEN /\ socks' = Use(socks, i, t,
                               [sk EXCEPT !.connected = TRUE,
                                          !.events = Append(@, "connect")])
               /\ thr' = [thr EXCEPT ![t].pc = "send_sendall"]
          ELSE /\ socks' = Use(socks, i, t, WithExit(sk))
               /\ thr' = [thr EXCEPT ![t].pc = "send_returned",
                                     ![t].snd = SendExcept(@, "AttributeError")]
    /\ UNCHANGED <<pc, client, ctor, snd, sock, rcv, conn, gmd>>

\* thread t has taken the result of its call and is ready for the next one
TReturn(t) ==
    /\ thr[t].pc = "send_returned"
    /\ thr' = [thr EXCEPT ![t] = NoCall]
    /\ UNCHANGED <<pc, client, ctor, snd, sock, rcv, conn, gmd, socks>>

\* a client was made and handed to the threads
InitConc ==
    /\ pc = "threads"
    /\ client \in SharedClients
    /\ ctor = NoCtor
    /\ snd = NoSend
    /\ sock = NoSock
    /\ rcv = NoRecv
    /\ conn = NoConn
    /\ gmd = NoMd
    /\ thr = [t \in Threads |-> NoCall]
    /\ socks = <<>>

NextConc ==
    \/ \E t \in Threads, h \in ThreadHeaders, m \in ThreadMessages : TSendCall(t, h, m)
    \/ \E t \in Threads : TSendSocket(t)
    \/ \E t \in Threads : TSendSetTimeout(t)
    \/ \E t \in Threads : TSendConnect(t)
    \/ \E t \in Threads : TReturn(t)

SpecConc == InitConc /\ [][NextConc]_vars

(***************************************************************************)
(* Properties                                                              *)
(***************************************************************************)
\* the sizes a frame's first ten bytes announce, read as big-endian uint16 and
\* uint64 (the model's sizes stay below 2^32)
FrameMetaSize(f) == f[1] * 256 + f[2]
FrameDataSize(f) == ((f[7] * 256 + f[8]) * 256 + f[9]) * 256 + f[10]
FrameLen(f)      == SIZE_PACKET_LEN + FrameMetaSize(f) + FrameDataSize(f)
FrameMeta(f)     == SubSeq(f, SIZE_PACKET_LEN + 1, SIZE_PACKET_LEN + FrameMetaSize(f))
FrameData(f)     == SubSeq(f, SIZE_PACKET_LEN + FrameMetaSize(f) + 1, FrameLen(f))

RecvEnded == pc \in {"recv_returned", "recv_raised"}

\* the peer sent the whole frame and no read failed: the stream was only split
\* into deliveries
WholeFrameFed ==
    /\ rcv.raised # "OSError"
    /\ (conn.eof => conn.delivered >= FrameLen(conn.inbound))

\* C1: whenever send has ended it has returned its 3-tuple and let no exception
\* through, whatever stage failed; and when the error of the tuple is not None
\* the response metadata is the empty dict and the response data is empty bytes.
C1_SendCapturesErrors ==
    pc = "send_returned" =>
        /\ snd.raised = "None"
        /\ (snd.err # "None" =>
                snd.r_md = PyEmptyDict /\ snd.r_dat = PyBytes(<<>>))

\* send has returned an error raised after the frame was built and a socket opened
C1_Witness ==
    /\ pc = "send_returned"
    /\ snd.built
    /\ snd.err = "AttributeError"
    /\ snd.r_md = PyEmptyDict

\* C2: in no state in which send has returned is the socket it opened still
\* open; a socket that was opened is closed.
C2_SocketClosedOnReturn ==
    pc = "send_returned" =>
        /\ sock.state # "open"
        /\ (sock.opened > 0 => sock.state = "closed")

\* send has returned after opening a socket and setting its timeout
C2_Witness ==
    /\ pc = "send_returned"
    /\ sock.opened = 1
    /\ sock.timeout # PyNone
    /\ sock.state = "closed"

\* C3: when the frame send's encoder builds from a non-empty mapping M and a
\* non-empty payload P is fed to recv as its inbound stream, recv returns with
\* no error the metadata bytes JSON(M) and the data bytes base64(P), undecoded.
C3_RoundTrip ==
    (RecvEnded /\ conn.origin.kind = "encoded" /\ WholeFrameFed) =>
        /\ pc = "recv_returned"
        /\ rcv.err = "None"
        /\ rcv.metadata = PyBytes(Utf8Encode(JsonDumps(conn.origin.headers.items)))
        /\ rcv.data = PyBytes(B64Encode(conn.origin.message.s))

\* C4: every frame send packs for the connection starts with the metadata
\* length as a big-endian uint16 and the payload length as a big-endian uint64,
\* followed by the metadata block and then the payload block, 10 + metaSize +
\* dataSize bytes in all.
C4_SizeHeaderAccuracy ==
    snd.built =>
        LET p == snd.payload
            m == Len(snd.metadata)
            d == Len(snd.message64)
        IN /\ Len(p) = 10 + m + d
           /\ p[1] * 256 + p[2] = m
           /\ p[3] = 0 /\ p[4] = 0 /\ p[5] = 0 /\ p[6] = 0
           /\ ((p[7] * 256 + p[8]) * 256 + p[9]) * 256 + p[10] = d
           /\ SubSeq(p, 11, 10 + m) = snd.metadata
           /\ SubSeq(p, 11 + m, 10 + m + d) = snd.message64
           /\ snd.metadata = JsonDumps(snd.headers.items)

\* send has packed a frame with a metadata block and a payload block
C4_Witness ==
    /\ snd.built
    /\ Len(snd.metadata) > 2
    /\ Len(snd.message64) > 0
    /\ pc = "send_socket"

\* C5: whenever the ten bytes recv read as the size header are all zero
\* (metaSize 0, dataSize 0), recv fails with ValueError "no data in the main
\* body" after that single read, with the ten header bytes the only ones taken
\* from the connection, whatever follows in the stream.
C5_EmptyBodyRejected ==
    (pc # "recv_size" /\ rcv.size_packet = Repeat(0, SIZE_PACKET_LEN)) =>
        /\ pc = "recv_raised"
        /\ rcv.raised = "ValueError"
        /\ rcv.text = "no data in the main body"
        /\ conn.reads = 1
        /\ conn.consumed = SIZE_PACKET_LEN

\* recv rejected an empty body while bytes that followed the header were waiting
C5_Witness ==
    /\ pc = "recv_raised"
    /\ rcv.raised = "ValueError"
    /\ conn.delivered > conn.consumed

\* C6: however the transport splits a complete response frame into deliveries,
\* recv reads exactly the 10 header bytes and returns exactly the metaSize
\* metadata bytes and the dataSize payload bytes of the frame.
C6_ExactReads ==
    (RecvEnded /\ WholeFrameFed /\ FrameLen(conn.inbound) > SIZE_PACKET_LEN) =>
        /\ pc = "recv_returned"
        /\ rcv.size_packet = Take(conn.inbound, SIZE_PACKET_LEN)
        /\ rcv.metadata.s = FrameMeta(conn.inbound)
        /\ rcv.data.s = FrameData(conn.inbound)

\* C7: when the connection closes before the ten header bytes, or before the
\* announced metadata and payload bytes, have all been delivered, recv reports
\* an error; it never ends without one holding a block shorter than announced.
C7_ShortReadDetected ==
    (RecvEnded /\ conn.eof
        /\ (conn.delivered < SIZE_PACKET_LEN \/ conn.delivered < FrameLen(conn.inbound))) =>
        pc = "recv_raised"

\* C8: recv lets no exception through to its caller: every failure ends with
\* the 3-tuple ({}, b"", error).
C8_RecvCapturesErrors ==
    RecvEnded =>
        /\ rcv.raised = "None"
        /\ (rcv.err # "None" =>
                rcv.metadata = PyEmptyDict /\ rcv.data = PyBytes(<<>>))

\* C9: when send has built a frame and opened its socket, and the transport did
\* not fail, every byte of the frame has been written to the connection, in
\* order, by the time send returns.
C9_WholeFrameWritten ==
    (pc = "send_returned" /\ snd.built /\ sock.opened > 0 /\ snd.err # "OSError") =>
        sock.wire = snd.payload

\* C10: RawdogClientTcp with a valid address, no options and port 0, -1 or 65536
\* raises a validation error; with port 1 or 65535 it returns a client.
C10_PortValidation ==
    (pc = "ctor_done" /\ ctor.cls = "Tcp" /\ ctor.server_addr = PyStr(<<104>>)
        /\ ~ctor.kwargs.has_timeout /\ ctor.server_port.t = "int") =>
        /\ (ctor.server_port.n \in {0, -1, MAX_PORT + 1} =>
                ctor.exc \in {"TypeError", "ValueError"} /\ ~client.made)
        /\ (ctor.server_port.n \in {MIN_PORT, MAX_PORT} =>
                ctor.exc = "None" /\ client.made)

\* a constructor call whose address and port are good: a non-empty str address
\* and, for the TCP variant, an int port within MIN_PORT..MAX_PORT
GoodAddressAndPort ==
    /\ ctor.server_addr = PyStr(<<104>>)
    /\ (ctor.cls = "Tcp" =>
            /\ ctor.server_port.t = "int"
            /\ ctor.server_port.n >= MIN_PORT
            /\ ctor.server_port.n <= MAX_PORT)

\* C11: every client variant, given a good address (and port), raises a
\* validation error and returns no client when send_timeout is 0, negative or
\* not an integer; returns a client when send_timeout is 1; and returns a client
\* whose timeout is 10 when send_timeout is omitted.
C11_TimeoutValidation ==
    (pc = "ctor_done" /\ GoodAddressAndPort) =>
        LET t == ctor.kwargs.send_timeout IN
        /\ (ctor.kwargs.has_timeout /\ (t.t \notin {"int", "bool"} \/ t.n < 1) =>
                ctor.exc \in {"TypeError", "ValueError"} /\ ~client.made)
        /\ (ctor.kwargs.has_timeout /\ t = PyInt(1) =>
                ctor.exc = "None" /\ client.made /\ client.send_timeout = PyInt(1))
        /\ (~ctor.kwargs.has_timeout =>
                ctor.exc = "None" /\ client.made
                    /\ client.send_timeout = PyInt(DEFAULT_SEND_TIMEOUT))

\* C12: every client variant raises a validation error and returns no client
\* when server_addr is not a str or is the empty str.
C12_AddressValidation ==
    (pc = "ctor_done" /\ (ctor.server_addr.t # "str" \/ ctor.server_addr = PyStr(<<>>))) =>
        ctor.exc \in {"TypeError", "ValueError"} /\ ~client.made

\* C13: generic_md of an int endpoint e returns, with no error, the mapping
\* {"Agentname": "client", "Endpoint": e, "Addldata": ""} of exactly these three
\* keys; of an endpoint that is no int it returns a TypeError and an empty mapping.
C13_GenericMd ==
    pc = "md_returned" =>
        /\ (gmd.endpoint.t = "int" =>
                /\ gmd.err = "None"
                /\ gmd.md = Dict(<<Item(<<65, 103, 101, 110, 116, 110, 97, 109, 101>>,
                                        PyStr(<<99, 108, 105, 101, 110, 116>>)),
                                   Item(<<69, 110, 100, 112, 111, 105, 110, 116>>,
                                        gmd.endpoint),
                                   Item(<<65, 100, 100, 108, 100, 97, 116, 97>>,
                                        PyStr(<<>>))>>))
        /\ (gmd.endpoint.t \in {"str", "float", "NoneType"} =>
                /\ gmd.err = "TypeError"
                /\ gmd.md = Dict(<<>>))

\* generic_md has returned the mapping for an int endpoint
C13_Witness ==
    /\ pc = "md_returned"
    /\ gmd.endpoint = PyInt(1)
    /\ gmd.err = "None"
    /\ Len(gmd.md.items) = 3

\* C20: no call changes the client: every step that is not a construction
\* leaves serverAddress, serverPort, sendTimeoutSeconds and agentName as they
\* were; and what generic_md returns does not depend on the mapping an earlier
\* call returned, whatever the caller has done to that mapping since.
C20_NoStateAcrossCalls ==
    [][/\ ((client.made /\ pc' # "ctor_done") => client' = client)
       /\ (pc' = "md_returned" =>
               /\ gmd'.held = gmd.held
               /\ gmd'.md.items \in
                      {<<>>, <<Item(KEY_AGENT, PyStr(client.agent_name)),
                               Item(KEY_ENDPOINT, gmd'.endpoint),
                               Item(KEY_ADDL, PyStr(<<>>))>>})]_vars

\* generic_md has returned while the caller holds an earlier mapping in which it
\* has set Addldata and a key of its own
C20_Witness ==
    /\ pc = "md_returned"
    /\ client.made
    /\ gmd.held.t = "dict"
    /\ Len(gmd.held.items) = 4
    /\ gmd.held.items[3].v = PyStr(<<120>>)
    /\ Len(gmd.md.items) = 3

\* C14: when send has built its frame and opened its socket, the socket is of
\* the client's kind (a Unix-domain socket for the Unix variant, an internet
\* socket for the TCP variant), it was connected, and the frame was written.
C14_VariantsConnectAndWrite ==
    (pc = "send_returned" /\ snd.built /\ sock.opened > 0) =>
        /\ sock.family = (IF client.cls = "Unix" THEN "AF_UNIX" ELSE "AF_INET")
        /\ sock.connected
        /\ "connect" \in {sock.events[i] : i \in 1..Len(sock.events)}
        /\ Len(sock.wire) = Len(snd.payload)

\* the place of a transport event in an exchange
EventRank(ev) ==
    CASE ev = "open" -> 1
      [] ev = "settimeout" -> 2
      [] ev = "connect" -> 3
      [] ev = "write" -> 4
      [] ev = "read" -> 5
      [] ev = "close" -> 6

\* C15: the transport events of one send call happen in the order open, set
\* timeout, connect, write, read, close, each at most once; at most one socket is
\* opened by the call; and once send has returned, the socket it opened was
\* opened first and closed last, with nothing retried after the failure.
C15_ExchangeOrdering ==
    /\ \A i, j \in 1..Len(sock.events) :
           i < j => EventRank(sock.events[i]) < EventRank(sock.events[j])
    /\ sock.opened <= 1
    /\ (sock.connected => sock.timeout # PyNone)
    /\ ((pc = "send_returned" /\ sock.opened > 0) =>
            /\ sock.events[1] = "open"
            /\ sock.events[Len(sock.events)] = "close")

\* send has returned after opening its socket, setting the timeout and closing
C15_Witness ==
    /\ pc = "send_returned"
    /\ sock.events = <<"open", "settimeout", "close">>
    /\ snd.err # "None"

\* C18: when send is called with headers that are no dict, or with a message
\* that is neither str nor bytes, it returns a TypeError as the third element of
\* its result and lets no exception through, and it has opened no socket and
\* written no byte.
C18_ArgumentValidation ==
    (snd.called /\ (snd.headers.t # "dict" \/ snd.message.t \notin {"str", "bytes"})) =>
        /\ pc = "send_returned"
        /\ snd.err = "TypeError"
        /\ snd.raised = "None"
        /\ ~snd.built
        /\ sock.opened = 0
        /\ sock.events = <<>>
        /\ sock.wire = <<>>

\* send was given a dict and a message that is an int, and has returned
C18_Witness ==
    /\ pc = "send_returned"
    /\ snd.called
    /\ snd.headers.t = "dict"
    /\ snd.message.t = "int"
    /\ snd.err = "TypeError"

\* C19: a frame whose header announces metaSize = 0 and dataSize > 0 is decoded
\* by recv into an empty metadata block and exactly the dataSize payload bytes,
\* and one announcing metaSize > 0 and dataSize = 0 into exactly the metaSize
\* metadata bytes and an empty payload; in both cases recv returns with error
\* None and has read nothing past the frame.
C19_OneSidedFrames ==
    LET f == conn.inbound
    IN (/\ RecvEnded
        /\ WholeFrameFed
        /\ conn.origin.kind = "raw"
        /\ \/ FrameMetaSize(f) = 0 /\ FrameDataSize(f) > 0
           \/ FrameMetaSize(f) > 0 /\ FrameDataSize(f) = 0) =>
        /\ pc = "recv_returned"
        /\ rcv.err = "None"
        /\ rcv.metadata.s = FrameMeta(f)
        /\ rcv.data = PyBytes(FrameData(f))
        /\ conn.consumed = FrameLen(f)

\* C17: when the UTF-8 JSON of the headers is longer than 65535 bytes send
\* returns an error as the third element of its result and writes nothing; and
\* the metaSize field of every frame send builds is the real length of the
\* metadata, never a truncated or wrapped value.
C17_OversizedMetadata ==
    /\ (/\ snd.called
        /\ snd.headers.t = "dict"
        /\ JsonDumpable(snd.headers.items)
        /\ Len(Utf8Encode(JsonDumps(snd.headers.items))) > MAX_UINT16) =>
            /\ pc = "send_returned"
            /\ snd.err # "None"
            /\ snd.raised = "None"
            /\ ~snd.built
            /\ sock.opened = 0
            /\ sock.wire = <<>>
    /\ snd.built =>
            /\ snd.metadata = Utf8Encode(JsonDumps(snd.headers.items))
            /\ FrameMetaSize(snd.payload) = Len(snd.metadata)
            /\ FrameMeta(snd.payload) = snd.metadata

\* send was given headers whose JSON is 65536 bytes long and a bytes message,
\* and has returned the struct.error of line 135
C17_Witness ==
    /\ pc = "send_returned"
    /\ snd.called
    /\ snd.headers \in LongHeaders
    /\ Len(JsonDumps(snd.headers.items)) = MAX_UINT16 + 1
    /\ snd.message.t = "bytes"
    /\ snd.err = "struct.error"

\* C16: however the send calls of the threads that share a client interleave,
\* each call that creates a socket creates its own, no socket is ever used by two
\* calls, and what a call returns is the outcome of its own encoding and its own
\* socket only: the error of its own failure, with the empty response.
C16_ConcurrentExchangesIndependent ==
    /\ \A i \in 1..Len(socks) :
          /\ socks[i].users = {socks[i].owner}
          /\ socks[i].sk.opened = 1
    /\ \A t \in DOMAIN thr :
          thr[t].conn # 0 =>
              /\ thr[t].conn \in 1..Len(socks)
              /\ socks[thr[t].conn].owner = t
              /\ \A u \in DOMAIN thr : u # t => thr[u].conn # thr[t].conn
              /\ thr[t].pc # "send_returned" => socks[thr[t].conn].sk.state = "open"
    /\ \A t \in DOMAIN thr :
          thr[t].pc = "send_returned" =>
              LET c == thr[t]
                  e == SendEncode(c.snd.headers, c.snd.message)
              IN /\ c.snd.raised = "None"
                 /\ c.snd.r_md = PyEmptyDict
                 /\ c.snd.r_dat = PyBytes(<<>>)
                 /\ e.exc # "None" => c.snd.err = e.exc /\ c.conn = 0
                 /\ (e.exc = "None" /\ c.conn = 0) => c.snd.err = "OSError"
                 /\ c.conn # 0 =>
                       /\ c.snd.err = "AttributeError"
                       /\ socks[c.conn].sk.state = "closed"
                       /\ socks[c.conn].sk.events = <<"open", "settimeout", "close">>

\* two calls are inside send at once, each with its own open socket, after an
\* earlier call of one of the threads has closed its own
C16_Witness ==
    /\ Len(socks) = 3
    /\ thr[1].pc = "send_connect"
    /\ thr[2].pc = "send_settimeout"
    /\ thr[1].conn # thr[2].conn
    /\ socks[thr[1].conn].sk.state = "open"
    /\ socks[thr[2].conn].sk.state = "open"
    /\ \E i \in 1..Len(socks) : socks[i].sk.state = "closed"

====
